---- MODULE Spec2Model ----
(***************************************************************************)
(* Scalar broadcast kernels of internal/block/column/c/operations_arm64.c: *)
(* int{32,64}_{add,sub,mul,div,mod}_scalar(a, b, result, len).             *)
(*                                                                         *)
(* An intN_t value is kept at its full width as its two's-complement bit   *)
(* pattern, a little-endian sequence of N/8 octets (limbs in 0..255), so   *)
(* that INT64_MIN, INT32_MAX and the wraparound of every operation are     *)
(* represented exactly.                                                    *)
(***************************************************************************)
EXTENDS Integers, Sequences, FiniteSets, TLC

\* Largest buffer length (and buffer capacity) explored.
MaxLen == 2

(***************************************************************************)
(* Fixed-width integers (stdint.h int32_t / int64_t).                      *)
(***************************************************************************)
Widths == {32, 64}

Base == 2 ^ 8

Limbs(w) == w \div 8

IsValue(v, w) ==
    /\ DOMAIN v = 1 .. Limbs(w)
    /\ \A k \in DOMAIN v : v[k] \in 0 .. (Base - 1)

\* A limb sequence given limb by limb, as a tuple.
AsSeq(f) == << >> \o f

Zero(w) == AsSeq([k \in 1 .. Limbs(w) |-> 0])

\* INT32_MIN / INT64_MIN: only the sign bit set.
MinValue(w) ==
    AsSeq([k \in 1 .. Limbs(w) |-> IF k = Limbs(w) THEN 128 ELSE 0])

\* INT32_MAX / INT64_MAX: every bit but the sign bit set.
MaxValue(w) ==
    AsSeq([k \in 1 .. Limbs(w) |-> IF k = Limbs(w) THEN 127 ELSE 255])

IsNeg(v) == v[Len(v)] >= 128

IsZero(v) == \A k \in DOMAIN v : v[k] = 0

\* Bitwise complement.
Not(v) == AsSeq([k \in DOMAIN v |-> (Base - 1) - v[k]])

RECURSIVE NatLimbs(_, _)
NatLimbs(n, count) ==
    IF count = 0 THEN << >>
    ELSE << n % Base >> \o NatLimbs(n \div Base, count - 1)

\* The w-bit two's-complement pattern of a small integer literal n.
FromInt(n, w) ==
    IF n >= 0 THEN NatLimbs(n, Limbs(w))
    ELSE Not(NatLimbs((-n) - 1, Limbs(w)))

\* The carry into limb k of x + y + cin (cin is 0 or 1): some lower limb
\* generates a carry that every limb between propagates, or cin is propagated
\* by every lower limb.
CarryInto(x, y, cin, k) ==
    \/ \E j \in 1 .. (k - 1) :
          /\ x[j] + y[j] >= Base
          /\ \A m \in (j + 1) .. (k - 1) : x[m] + y[m] = Base - 1
    \/ cin = 1 /\ \A m \in 1 .. (k - 1) : x[m] + y[m] = Base - 1

\* x + y + cin on bit patterns: the low w bits and the carry out of bit w-1.
AddC(x, y, cin) ==
    [sum   |-> AsSeq([k \in 1 .. Len(x) |->
                  (x[k] + y[k] + (IF CarryInto(x, y, cin, k) THEN 1 ELSE 0))
                      % Base]),
     carry |-> IF CarryInto(x, y, cin, Len(x) + 1) THEN 1 ELSE 0]

\* Two's-complement negation (the pattern of 2^w - x).
Neg(v) == AddC(Not(v), Zero(8 * Len(v)), 1).sum

\* |v| as an unsigned w-bit pattern (|MIN| = 2^(w-1) is representable unsigned).
Magnitude(v) == IF IsNeg(v) THEN Neg(v) ELSE v

\* Unsigned x < y.
LessU(x, y) == AddC(x, Not(y), 1).carry = 0

(***************************************************************************)
(* The arithmetic the kernels' loop bodies perform, as the arm64           *)
(* instructions compute it (add, sub, mul, sdiv, sdiv+msub).               *)
(***************************************************************************)
\* a[i] + b
WrapAdd(x, y) == AddC(x, y, 0).sum

\* The operands of the subtraction are exchanged: b - a[i].
SubReversed(x, y) == AddC(y, Not(x), 1).sum

\* a[i] - b
WrapSub(x, y) == AddC(x, Not(y), 1).sum

RECURSIVE ColumnSum(_, _, _, _)
\* Column k of the schoolbook product: the sum of x[i] * y[k - i + 1].
ColumnSum(x, y, k, i) ==
    IF i > Len(x) THEN 0
    ELSE (IF k - i + 1 \in DOMAIN y THEN x[i] * y[k - i + 1] ELSE 0)
         + ColumnSum(x, y, k, i + 1)

\* The low count limbs of the unsigned product x * y: each column sum is
\* below Base^3, so the product is the sum of the columns' low, middle and
\* high limbs, each placed at its weight.
MulLimbs(x, y, count) ==
    LET col  == AsSeq([k \in 1 .. count |-> ColumnSum(x, y, k, 1)])
        low  == AsSeq([k \in 1 .. count |-> col[k] % Base])
        mid  == AsSeq([k \in 1 .. count |->
                   IF k >= 2 THEN (col[k - 1] \div Base) % Base ELSE 0])
        high == AsSeq([k \in 1 .. count |->
                   IF k >= 3 THEN col[k - 2] \div (Base * Base) ELSE 0])
    IN  AddC(AddC(low, mid, 0).sum, high, 0).sum

\* The full 2w-bit unsigned product of two w-bit patterns.
MulFull(x, y) == MulLimbs(x, y, 2 * Len(x))

\* a[i] * b: the low w bits of the product.
WrapMul(x, y) == MulLimbs(x, y, Len(x))

LimbAt(v, k) == IF k \in DOMAIN v THEN v[k] ELSE 0

\* Index of the most significant non-zero limb of v (v # 0).
TopLimb(v) == CHOOSE k \in DOMAIN v : v[k] # 0 /\ \A j \in DOMAIN v : j > k => v[j] = 0

\* v * d for one limb d, one limb longer than v: the low limbs of the
\* products v[k] * d plus their high limbs one place up.
MulSmall(v, d) ==
    LET low  == AsSeq([k \in 1 .. (Len(v) + 1) |->
                   IF k <= Len(v) THEN (v[k] * d) % Base ELSE 0])
        high == AsSeq([k \in 1 .. (Len(v) + 1) |->
                   IF k >= 2 THEN (v[k - 1] * d) \div Base ELSE 0])
    IN  AddC(low, high, 0).sum

\* An upper estimate, at most 2 too large, of the quotient digit r \div v
\* (r < Base * v), from the three leading limbs of r and the two of v.
DigitEstimate(r, v, t) ==
    LET v2 == v[t] * Base + LimbAt(v, t - 1)
        r3 == (r[t + 1] * Base + r[t]) * Base + LimbAt(r, t - 1)
        e  == r3 \div v2
    IN  IF e > Base - 1 THEN Base - 1 ELSE e

RECURSIVE DivDigit(_, _, _)
\* The quotient digit d = r \div v and the remainder r - d * v, from estimate d.
DivDigit(r, v, d) ==
    LET s == AddC(r, Not(MulSmall(v, d)), 1)
    IN  IF s.carry = 1 THEN [d |-> d, r |-> s.sum] ELSE DivDigit(r, v, d - 1)

RECURSIVE DivLimbs(_, _, _, _, _, _)
\* Schoolbook long division, most significant limb of u first: q holds the
\* quotient limbs found so far and r the running remainder, which keeps one
\* limb more than v.  A zero estimate is a zero digit and leaves the
\* remainder as it is.
DivLimbs(u, v, t, k, q, r) ==
    IF k < 1 THEN [q |-> q, r |-> SubSeq(r, 1, Len(u))]
    ELSE LET r1 == << u[k] >> \o SubSeq(r, 1, Len(u))
             e  == DigitEstimate(r1, v, t)
             c  == DivDigit(r1, v, e)
         IN  IF e = 0
             THEN DivLimbs(u, v, t, k - 1, << 0 >> \o q, r1)
             ELSE DivLimbs(u, v, t, k - 1, << c.d >> \o q, c.r)

\* Unsigned quotient and remainder of the magnitudes u, v (v # 0).
DivU(u, v) ==
    DivLimbs(u, v, TopLimb(v), Len(u), << >>, Zero(8 * Len(u) + 8))

\* sdiv: the quotient rounded toward zero; a zero divisor yields 0 and
\* MIN / -1 yields MIN (the instruction never traps).
SDiv(x, y) ==
    LET u == Magnitude(x)
        v == Magnitude(y)
    IN  IF IsZero(y) \/ LessU(u, v) THEN Zero(8 * Len(x))
        ELSE IF IsNeg(x) # IsNeg(y) THEN Neg(DivU(u, v).q)
        ELSE DivU(u, v).q

\* sdiv + msub: x - (x sdiv y) * y; a zero quotient leaves x.
SRem(x, y) ==
    LET q == SDiv(x, y)
    IN  IF IsZero(q) THEN x ELSE WrapSub(x, WrapMul(q, y))

\* The quotient is rounded toward negative infinity.
DivFloor(x, y) ==
    LET q == SDiv(x, y)
    IN  IF ~IsZero(y) /\ IsNeg(x) # IsNeg(y) /\ x # WrapMul(q, y)
        THEN AddC(q, Not(Zero(8 * Len(q))), 0).sum
        ELSE q

\* a[i] / b
DivTrunc(x, y) == SDiv(x, y)

\* The remainder takes the sign of the divisor.
ModFloor(x, y) ==
    LET r == SRem(x, y)
    IN  IF ~IsZero(y) /\ ~IsZero(r) /\ IsNeg(r) # IsNeg(y)
        THEN AddC(r, y, 0).sum
        ELSE r

\* a[i] % b, compiled as sdiv + msub.
ModTrunc(x, y) == SRem(x, y)

Ops == {"add", "sub", "mul", "div", "mod"}

ArithOps == {"add", "sub", "mul"}

DivOps == {"div", "mod"}

\* The value the loop body's expression a[i] OP b produces in the native build.
Eval(o, x, y) ==
    CASE o = "add" -> WrapAdd(x, y)
      [] o = "sub" -> WrapSub(x, y)
      [] o = "mul" -> WrapMul(x, y)
      [] o = "div" -> DivTrunc(x, y)
      [] o = "mod" -> ModTrunc(x, y)

\* The mathematical result of a signed +, - or * does not fit in the width:
\* undefined behaviour for the C expression (signed integer overflow).
Overflows(o, x, y) ==
    CASE o = "add" -> IsNeg(x) = IsNeg(y) /\ IsNeg(WrapAdd(x, y)) # IsNeg(x)
      [] o = "sub" -> IsNeg(x) # IsNeg(y) /\ IsNeg(WrapSub(x, y)) # IsNeg(x)
      [] o = "mul" ->
            LET p    == MulFull(Magnitude(x), Magnitude(y))
                n    == Len(x)
                low  == SubSeq(p, 1, n)
                high == SubSeq(p, n + 1, 2 * n)
            IN  \/ ~IsZero(high)
                \/ IF IsNeg(x) # IsNeg(y)
                   THEN LessU(MinValue(8 * n), low)
                   ELSE IsNeg(low)
      [] OTHER -> FALSE

DivByZero(o, x, y) == o \in DivOps /\ IsZero(y)

DivOverflow(o, x, y) ==
    o \in DivOps /\ x = MinValue(8 * Len(x)) /\ y = FromInt(-1, 8 * Len(y))

\* The expression a[i] OP b has undefined behaviour in C.
Undefined(o, x, y) ==
    Overflows(o, x, y) \/ DivByZero(o, x, y) \/ DivOverflow(o, x, y)

(***************************************************************************)
(* Caller-owned memory and the inputs explored.                            *)
(***************************************************************************)
\* Two caller buffers; each holds MaxLen elements and one guard element.
Buffers == {"x", "y"}

Capacity == MaxLen + 1

\* Element values an input column holds.
Elems(w) == {MinValue(w), FromInt(-7, w), FromInt(7, w), MaxValue(w)}

\* Scalar operands.
Scalars(w) ==
    {FromInt(-2, w), FromInt(-1, w), Zero(w), FromInt(2, w), FromInt(3, w),
     MaxValue(w)}

\* len arguments: negative, zero, and up to the buffers' MaxLen elements.
Lens == (-1) .. MaxLen

\* What an output buffer and the guard elements hold before any call.
Poison(w) == AsSeq([k \in 1 .. Limbs(w) |-> 165])

VARIABLES
    width,   \* element width of the column: 32 or 64
    mem,     \* the contents of the caller's buffers
    pc,      \* "idle", "loop" (inside a kernel), "done" (returned), "trap"
    op,      \* the kernel running: int<width>_<op>_scalar
    a,       \* argument a: the buffer read
    b,       \* argument b: the scalar
    result,  \* argument result: the buffer written
    len,     \* argument len
    i,       \* the loop index
    mem0,    \* memory when the running call was entered
    writes,  \* the indices the running call has stored to, in order
    hist     \* the calls that have returned

vars == <<width, mem, pc, op, a, b, result, len, i, mem0, writes, hist>>

\* a[j] (C indices start at 0).
Load(m, p, j) == m[p][j + 1]

\* The store also clears the element after it (a store wider than the element).
StoreWide(m, p, j, v) ==
    [m EXCEPT ![p] = [k \in DOMAIN m[p] |->
        IF k = j + 1 THEN v
        ELSE IF k = j + 2 THEN Zero(8 * Len(v))
        ELSE m[p][k]]]

\* The store lands one element late.
StoreLate(m, p, j, v) == [m EXCEPT ![p][j + 2] = v]

\* result[j] = v
Store(m, p, j, v) == [m EXCEPT ![p][j + 1] = v]

\* The loop runs one iteration too many.
LoopCondInclusive(j, n) == j <= n

\* i < len
LoopCond(j, n) == j < n

Init ==
    /\ width \in Widths
    /\ \E col \in [1 .. MaxLen -> Elems(width)] :
          mem = [p \in Buffers |->
                   [k \in 1 .. Capacity |->
                      IF p = "x" /\ k <= MaxLen THEN col[k] ELSE Poison(width)]]
    /\ pc = "idle"
    /\ op = "add"
    /\ a = "x"
    /\ b = Zero(width)
    /\ result = "x"
    /\ len = 0
    /\ i = 0
    /\ mem0 = mem
    /\ writes = << >>
    /\ hist = << >>

\* Entry to int<width>_<o>_scalar(p, s, r, n): the loop index starts at 0.
Enter(o, p, s, r, n) ==
    /\ pc' = "loop"
    /\ op' = o
    /\ a' = p
    /\ b' = s
    /\ result' = r
    /\ len' = n
    /\ i' = 0
    /\ mem0' = mem
    /\ writes' = << >>
    /\ UNCHANGED <<width, mem, hist>>

\* A caller invokes one of the ten kernels on the input column.
Call ==
    /\ pc = "idle"
    /\ \E o \in Ops, s \in Scalars(width), r \in Buffers, n \in Lens :
          Enter(o, "x", s, r, n)

\* After a call into a separate output buffer returned, the caller runs the
\* same kernel with the same scalar and length in place on the input.
CallInPlace ==
    /\ pc = "done"
    /\ Len(hist) = 1
    /\ a # result
    /\ Enter(op, a, b, a, len)

\* After an add returned, the caller subtracts the same scalar from its
\* result, into either buffer.
CallSubOnResult ==
    /\ pc = "done"
    /\ Len(hist) = 1
    /\ op = "add"
    /\ \E r \in Buffers : Enter("sub", result, b, r, len)

\* One iteration: result[i] = a[i] OP b; i++.  When the expression is
\* undefined in C this is the native outcome: the value the arm64 instruction
\* leaves (wrapped sum, difference or product; sdiv by 0 = 0; MIN sdiv -1 =
\* MIN).  The vectorize/interleave pragmas are hints: the compiled loop has
\* the effect of the sequential one, also when result == a.
Step ==
    /\ pc = "loop"
    /\ LoopCond(i, len)
    /\ mem' = Store(mem, result, i, Eval(op, Load(mem, a, i), b))
    /\ i' = i + 1
    /\ writes' = Append(writes, i)
    /\ UNCHANGED <<width, pc, op, a, b, result, len, mem0, hist>>

\* An iteration whose expression is undefined in C may, instead of storing
\* the native result, abort the process (a checked build, or a target whose
\* divide instruction faults).
Trap ==
    /\ pc = "loop"
    /\ LoopCond(i, len)
    /\ Undefined(op, Load(mem, a, i), b)
    /\ pc' = "trap"
    /\ UNCHANGED <<width, mem, op, a, b, result, len, i, mem0, writes, hist>>

\* The loop condition fails and the kernel returns.
Return ==
    /\ pc = "loop"
    /\ ~LoopCond(i, len)
    /\ pc' = "done"
    /\ hist' = Append(hist, [op |-> op, a |-> a, b |-> b, result |-> result,
                             len |-> len, before |-> mem0, after |-> mem])
    /\ UNCHANGED <<width, mem, op, a, b, result, len, i, mem0, writes>>

Next ==
    \/ Call
    \/ CallInPlace
    \/ CallSubOnResult
    \/ Step
    \/ Trap
    \/ Return

Spec == Init /\ [][Next]_vars

TypeOK ==
    /\ width \in Widths
    /\ pc \in {"idle", "loop", "done", "trap"}
    /\ op \in Ops
    /\ a \in Buffers
    /\ result \in Buffers
    /\ IsValue(b, width)
    /\ len \in Lens
    /\ i \in 0 .. MaxLen
    /\ \A p \in Buffers : \A k \in 1 .. Capacity : IsValue(mem[p][k], width)

(***************************************************************************)
(* Properties.                                                             *)
(***************************************************************************)
InCall == pc # "idle"

\* The C indices the running call has completed an iteration for.
Processed == 0 .. (i - 1)

MaxOf(m, n) == IF m >= n THEN m ELSE n

\* q is x / y rounded toward zero: q is a value of x's width, q * y is
\* representable, |q * y| <= |x| and |x - q * y| < |y|.
IsTruncQuotient(x, y, q) ==
    LET p == WrapMul(q, y)
        r == WrapSub(x, p)
    IN  /\ IsValue(q, 8 * Len(x))
        /\ ~Overflows("mul", q, y)
        /\ ~Overflows("sub", x, p)
        /\ ~LessU(Magnitude(x), Magnitude(p))
        /\ LessU(Magnitude(r), Magnitude(y))

\* C1: in an add, sub or mul call every iteration stores the two's-complement
\* wraparound result, and no iteration has an undefined outcome: the call
\* never aborts, whether or not the mathematical result fits the width.
C1_WrapsNeverUndefined ==
    (InCall /\ op \in ArithOps) =>
        /\ pc # "trap"
        /\ \A j \in Processed :
              Load(mem, result, j) = Eval(op, Load(mem0, a, j), b)

\* C2: a div or mod call with b = 0 (and len > 0) fails before its loop: it
\* never completes an iteration, never returns as a success, and the output
\* buffer stays as it was when the call was entered.
C2_DivByZeroFailsUpFront ==
    (InCall /\ op \in DivOps /\ IsZero(b) /\ len > 0) =>
        /\ i = 0
        /\ pc # "done"
        /\ mem[result] = mem0[result]

\* C3: a div or mod call with b = -1 never completes an iteration on an
\* element equal to MIN_VALUE (it stores no quotient or remainder for it), and
\* never returns as a success when the input holds such an element.
C3_MinByMinusOneNotStored ==
    (InCall /\ op \in DivOps /\ b = FromInt(-1, width)) =>
        /\ \A j \in Processed : Load(mem0, a, j) # MinValue(width)
        /\ pc = "done" =>
              \A j \in 0 .. (len - 1) : Load(mem0, a, j) # MinValue(width)

\* C4: every element a div call has stored, for b # 0 and not MIN / -1, is
\* the quotient rounded toward zero; -7 / 2 = -3 and 7 / -2 = -3.
C4_DivRoundsTowardZero ==
    (InCall /\ op = "div" /\ ~IsZero(b)) =>
        \A j \in Processed :
            LET x == Load(mem0, a, j)
                q == Load(mem, result, j)
            IN  ~DivOverflow(op, x, b) =>
                  /\ IsTruncQuotient(x, b, q)
                  /\ (x = FromInt(-7, width) /\ b = FromInt(2, width))
                        => q = FromInt(-3, width)
                  /\ (x = FromInt(7, width) /\ b = FromInt(-2, width))
                        => q = FromInt(-3, width)

C4_Witness ==
    /\ pc = "done"
    /\ op = "div"
    /\ len = MaxLen
    /\ b = FromInt(2, width)
    /\ Load(mem0, a, 0) = FromInt(-7, width)
    /\ Load(mem, result, 0) = FromInt(-3, width)

\* C5: every element a mod call has stored, for b # 0 and not MIN % -1, is
\* the remainder of the truncating division: zero or of the dividend's sign,
\* smaller than b in magnitude, with a[i] = (a[i] / b) * b + result[i];
\* -7 mod 3 = -1.
C5_ModFollowsDividend ==
    (InCall /\ op = "mod" /\ ~IsZero(b)) =>
        \A j \in Processed :
            LET x == Load(mem0, a, j)
                r == Load(mem, result, j)
                q == DivTrunc(x, b)
            IN  ~DivOverflow(op, x, b) =>
                  /\ IsZero(r) \/ IsNeg(r) = IsNeg(x)
                  /\ LessU(Magnitude(r), Magnitude(b))
                  /\ IsTruncQuotient(x, b, q)
                  /\ ~Overflows("add", WrapMul(q, b), r)
                  /\ x = WrapAdd(WrapMul(q, b), r)
                  /\ (x = FromInt(-7, width) /\ b = FromInt(3, width))
                        => r = FromInt(-1, width)

C5_Witness ==
    /\ pc = "done"
    /\ op = "mod"
    /\ len = MaxLen
    /\ b = FromInt(3, width)
    /\ Load(mem0, a, 0) = FromInt(-7, width)
    /\ Load(mem, result, 0) = FromInt(-1, width)

\* C6: a call with len = 0 never aborts and never iterates, for every kernel
\* and scalar: it is in its loop test or has returned, and memory is as it
\* was when the call was entered.
C6_ZeroLenLeavesOutput ==
    (InCall /\ len = 0) =>
        /\ pc \in {"loop", "done"}
        /\ i = 0
        /\ writes = << >>
        /\ mem = mem0

C6_Witness ==
    /\ pc = "done"
    /\ len = 0
    /\ op \in DivOps
    /\ IsZero(b)
    /\ Load(mem, result, 0) = Poison(width)

\* The second returned call is the first one repeated in place: same kernel,
\* scalar, length and input contents, with result = a.
InPlaceRepeat ==
    /\ Len(hist) = 2
    /\ hist[1].a # hist[1].result
    /\ hist[2].a = hist[2].result
    /\ hist[2].op = hist[1].op
    /\ hist[2].a = hist[1].a
    /\ hist[2].b = hist[1].b
    /\ hist[2].len = hist[1].len
    /\ hist[2].before[hist[2].a] = hist[1].before[hist[1].a]

\* C7: an in-place call (result = a) leaves in the buffer exactly what the
\* call into a separate output buffer left there for the same input, and
\* while it runs every element not yet processed still holds its input value.
C7_InPlaceSameAsDisjoint ==
    /\ InPlaceRepeat =>
          \A j \in 0 .. (hist[1].len - 1) :
              Load(hist[2].after, hist[2].result, j)
                  = Load(hist[1].after, hist[1].result, j)
    /\ (pc = "loop" /\ a = result) =>
          \A j \in i .. (Capacity - 1) : Load(mem, a, j) = Load(mem0, a, j)

C7_Witness ==
    /\ InPlaceRepeat
    /\ hist[1].len = MaxLen
    /\ hist[1].op = "mul"
    /\ hist[2].after[hist[2].a] # hist[2].before[hist[2].a]

\* The second returned call subtracted the scalar the first one added, from
\* the first one's result.
AddThenSub ==
    /\ Len(hist) = 2
    /\ hist[1].op = "add"
    /\ hist[2].op = "sub"
    /\ hist[2].a = hist[1].result
    /\ hist[2].b = hist[1].b
    /\ hist[2].len = hist[1].len

\* C8: add b into tmp, then subtract b from tmp into out: out[j] = a[j] at
\* every index where neither step overflowed.
C8_AddSubRoundTrip ==
    AddThenSub =>
        \A j \in 0 .. (hist[1].len - 1) :
            LET x == Load(hist[1].before, hist[1].a, j)
                t == Load(hist[2].before, hist[2].a, j)
            IN  (~Overflows("add", x, hist[1].b) /\ ~Overflows("sub", t, hist[2].b))
                    => Load(hist[2].after, hist[2].result, j) = x

C8_Witness ==
    /\ AddThenSub
    /\ hist[1].len = MaxLen
    /\ hist[1].b = FromInt(3, width)
    /\ hist[1].a # hist[1].result
    /\ hist[2].result # hist[2].a
    /\ \A j \in 0 .. (hist[1].len - 1) :
          /\ ~Overflows("add", Load(hist[1].before, hist[1].a, j), hist[1].b)
          /\ Load(hist[1].after, hist[1].result, j)
                # Load(hist[1].before, hist[1].a, j)

\* C9: during and after a call only result[0 .. len-1] differs from memory as
\* it was on entry (so a disjoint input buffer is intact at every index), the
\* scalar recorded on return is the one passed, every store index is in
\* [0, len), and what a returned call left in result[j] is determined by that
\* call's own a[j] and b, whatever ran before it.
C9_OnlyResultWritten ==
    /\ InCall =>
          /\ \A p \in Buffers : \A k \in 0 .. (Capacity - 1) :
                (p # result \/ k \notin 0 .. (len - 1))
                    => Load(mem, p, k) = Load(mem0, p, k)
          /\ a # result => mem[a] = mem0[a]
          /\ \A n \in DOMAIN writes : writes[n] \in 0 .. (len - 1)
    /\ \A n \in DOMAIN hist :
          /\ hist[n].a # hist[n].result
                => hist[n].after[hist[n].a] = hist[n].before[hist[n].a]
          /\ \A j \in 0 .. (hist[n].len - 1) :
                Load(hist[n].after, hist[n].result, j)
                    = Eval(hist[n].op, Load(hist[n].before, hist[n].a, j), hist[n].b)
    /\ pc = "done" => hist[Len(hist)].b = b

C9_Witness ==
    /\ pc = "done"
    /\ Len(hist) = 2
    /\ a # result
    /\ len = 1
    /\ writes = << 0 >>
    /\ Load(mem, result, 0) # Load(mem0, result, 0)
    /\ Load(mem, result, 1) = Load(mem0, result, 1)

\* C10: a call never aborts; while it runs it has stored to exactly the
\* indices 0 .. i-1, once each in ascending order, with i at most len; when
\* it has returned it has stored to exactly 0 .. len-1 (to nothing when
\* len <= 0).
C10_RunsExactlyLenIterations ==
    /\ pc # "trap"
    /\ pc = "loop" =>
          /\ i <= MaxOf(len, 0)
          /\ writes = [n \in 1 .. i |-> n - 1]
    /\ pc = "done" => writes = [n \in 1 .. MaxOf(len, 0) |-> n - 1]

====
